---- MODULE Spec2Model ----
(***************************************************************************)
(* Model of thread_utils::BlockingQueue<T> and thread_utils::BlockingSlot<T> *)
(* (src/src/blocking_queue.h).                                             *)
(*                                                                         *)
(* BlockingQueue: a std::deque guarded by a std::mutex, with a counting    *)
(* semaphore posted by push/emplace and waited on by pop.                  *)
(* BlockingSlot: a std::optional guarded by a std::mutex, with a binary    *)
(* semaphore posted by set and waited on by get.                           *)
(*                                                                         *)
(* semaphore.h is not part of the sources at hand; semaphore_t and         *)
(* binary_semaphore_t follow the contract of spec.md section 6.            *)
(***************************************************************************)
EXTENDS Integers, Sequences, FiniteSets, TLC

\* ------------------------------------------------------------------ bounds
\* push and emplace calls, all producers together
MaxPushes == 3
\* pop calls, all consumers together
MaxPops == 3
\* clear() calls, all threads together
MaxClears == 1

\* set calls on the slot, all setters together
MaxSets == 2
\* get calls on the slot, all getters together
MaxGets == 2
\* clear() calls on the slot, all threads together
MaxSlotClears == 1

\* the threads that call set and clear on the slot, and those that call get
Setters == {1, 2}
Getters == {1, 2}
\* the values given to set
SlotValues == {10, 20}

\* the threads that call push, emplace and clear, and those that call pop
Producers == {1, 2}
Consumers == {1, 2}

\* the k-th call of push or emplace is given item k: all items are distinct
AllItems == 1 .. MaxPushes

\* std::nullopt, and a value that was never pushed
NoValue == -1
Garbage == -2

\* the timeout_ms arguments tried: the default, zero and a positive timeout
Timeouts == {-1, 0, 5}

NoThread == <<>>
Prod(p) == <<"producer", p>>
Cons(c) == <<"consumer", c>>

VARIABLES
    \* BlockingQueue members
    mQueue,          \* std::deque<T> mQueue
    mQueueSemaphore, \* semaphore_t mQueueSemaphore: its count
    mMutex,          \* std::mutex mMutex: the thread that holds it
    \* threads
    ppc,             \* position of each producer in its call
    cpc,             \* position of each consumer in its call
    timeout_ms,      \* the timeout_ms argument of each consumer's pop call, while it waits
    \* history
    log,             \* the changes of mQueue, in the order the mutex gave them;
                     \* a "pop" entry holds the value that pop returned, an
                     \* "emplace" entry the argument of the call
    nPushes,         \* push and emplace calls issued
    nPops,           \* pop calls issued
    nClears,         \* clear() calls issued
    nPosted,         \* push/emplace calls that have posted the semaphore
    nPassed,         \* pop calls that have passed their semaphore wait
    nTimedOut,       \* pop calls that have returned std::nullopt
    found,           \* what each pop call found, while it waits: "stocked" (the queue held an
                     \* element when it was called), "dry" (the queue was empty then and
                     \* nothing was inserted since), "fed" (empty then, an insertion since)
    afterClear,      \* the waiting pop was called right after a clear() of a populated,
                     \* untouched queue, and nothing was inserted since
    crashed          \* a call with undefined behaviour has been executed

qvars == <<mQueue, mQueueSemaphore, mMutex, ppc, cpc, timeout_ms, log,
           nPushes, nPops, nClears, nPosted, nPassed, nTimedOut, found, afterClear, crashed>>

VARIABLES
    \* BlockingSlot members
    mSlot,           \* std::optional<T> mSlot
    mSemaphore,      \* binary_semaphore_t mSemaphore: whether it is signaled
    mSlotMutex,      \* std::mutex mMutex of the slot: the thread that holds it
    \* threads
    spc,             \* position of each setter in its call
    gpc,             \* position of each getter in its call
    get_timeout,     \* the timeout_ms argument of each getter's get call, while it waits
    wasEmpty,        \* whether the slot held no value when the set in progress took the mutex
    \* history
    slotLog,         \* what happened to the slot, in order: "set" and "get" (the call
                     \* returns), "take" (a get passes its wait), "timeout", "clear"
    nSets,           \* set calls issued
    nGets,           \* get calls issued
    nSlotClears      \* clear() calls issued on the slot

svars == <<mSlot, mSemaphore, mSlotMutex, spc, gpc, get_timeout, wasEmpty, slotLog,
           nSets, nGets, nSlotClears>>

vars == <<qvars, svars>>

\* --------------------------------------------------- semaphore_t (contract)
\* post(): increments the available count
SemPost(count) == count + 1
\* wait() / wait_for() can take a signal when the count is positive
SemAvailable(count) == count > 0
\* a successful wait decrements the count
SemTake(count) == count - 1

\* ------------------------------------------------------ BlockingQueue code
\* variants of push that ignore the front argument
PushAlwaysFront(queue, element, front) == <<element>> \o queue
PushAlwaysBack(queue, element, front) == Append(queue, element)

\* push, lines 75-76: push_front when front is given, push_back otherwise
PushElement(queue, element, front) ==
    IF front THEN <<element>> \o queue ELSE Append(queue, element)

\* what T() is for the element type: no item of AllItems
Default == 0

\* emplace, line 87: mQueue.emplace(element). mQueue is a std::deque, whose
\* emplace(pos, args...) takes the position first: the call passes element as
\* the position and no constructor argument. It is ill-formed unless T converts
\* to std::deque<T>::const_iterator; where it is accepted it constructs T()
\* in front of the position pos that element converts to, and element itself
\* is not stored
EmplaceElement(queue, element, pos) ==
    SubSeq(queue, 1, pos) \o <<Default>> \o SubSeq(queue, pos + 1, Len(queue))

\* variants that post twice, or not at all
PostTwice(count) == SemPost(SemPost(count))
PostNone(count) == count

\* push line 77, emplace line 88: one post per call
PostOnce(count) == SemPost(count)

MutexLockedBeforeWait(mutex, thread) == IF mutex = NoThread THEN thread ELSE mutex

\* pop lines 98-105, get lines 149-156: the semaphore wait comes before the
\* lock_guard, so the caller enters its wait without having touched the mutex
MutexBeforeWait(mutex, thread) == mutex

PopIsTimedFromZero(t) == t >= 0

\* pop, line 98: the wait is bounded only for a positive timeout
PopIsTimed(t) == t > 0

\* pop, line 107: the element returned
FrontOf(queue) == Head(queue)

\* a variant that leaves the element in the deque
PopFrontKeep(queue) == queue

PopFrontAll(queue) == <<>>

\* pop, line 108: pop_front
PopFront(queue) == Tail(queue)

\* clear, line 117
ClearQueue(queue) == <<>>

SemaphoreDrained(count) == 0

\* clear, lines 114-118: no call is made on mQueueSemaphore
SemaphoreAfterClear(count) == count

QueueInit ==
    /\ mQueue = <<>>
    /\ mQueueSemaphore = 0
    /\ mMutex = NoThread
    /\ ppc = [p \in Producers |-> "idle"]
    /\ cpc = [c \in Consumers |-> "idle"]
    /\ timeout_ms = [c \in Consumers |-> -1]
    /\ log = <<>>
    /\ nPushes = 0
    /\ nPops = 0
    /\ nClears = 0
    /\ nPosted = 0
    /\ nPassed = 0
    /\ nTimedOut = 0
    /\ found = [c \in Consumers |-> "stocked"]
    /\ afterClear = [c \in Consumers |-> FALSE]
    /\ crashed = FALSE

ConsumerVars == <<cpc, timeout_ms>>
Counters == <<nPushes, nPops, nClears, nPosted, nPassed, nTimedOut>>

\* ---------------------------------------------------------------- push
\* lines 72-76: push(element, front) takes the mutex and inserts the element
Push(p, front) ==
    /\ ~crashed
    /\ UNCHANGED svars
    /\ ppc[p] = "idle"
    /\ nPushes < MaxPushes
    /\ mMutex = NoThread
    /\ mMutex' = Prod(p)
    /\ LET element == nPushes + 1 IN
        /\ mQueue' = PushElement(mQueue, element, front)
        /\ log' = Append(log, [op |-> "push", value |-> element, front |-> front])
    /\ nPushes' = nPushes + 1
    /\ ppc' = [ppc EXCEPT ![p] = "post"]
    /\ found' = [c \in Consumers |-> IF found[c] = "stocked" THEN "stocked" ELSE "fed"]
    /\ afterClear' = [c \in Consumers |-> FALSE]
    /\ UNCHANGED <<mQueueSemaphore, ConsumerVars, nPops, nClears, nPosted, nPassed,
                   nTimedOut, crashed>>

\* lines 84-87: emplace(element) takes the mutex and calls mQueue.emplace(element).
\* The position that element converts to cannot be an iterator of the private
\* mQueue, so the call has undefined behaviour: T() is constructed at some
\* position of the deque, or the process ends there; what the program does
\* afterwards is not defined and is followed no further.
Emplace(p) ==
    /\ ~crashed
    /\ UNCHANGED svars
    /\ ppc[p] = "idle"
    /\ nPushes < MaxPushes
    /\ mMutex = NoThread
    /\ mMutex' = Prod(p)
    /\ LET element == nPushes + 1 IN
        /\ log' = Append(log, [op |-> "emplace", value |-> element, front |-> FALSE])
        /\ \/ \E pos \in 0 .. Len(mQueue) : mQueue' = EmplaceElement(mQueue, element, pos)
           \/ UNCHANGED mQueue
    /\ nPushes' = nPushes + 1
    /\ ppc' = [ppc EXCEPT ![p] = "post"]
    /\ crashed' = TRUE
    /\ UNCHANGED <<mQueueSemaphore, ConsumerVars, nPops, nClears, nPosted, nPassed,
                   nTimedOut, found, afterClear>>

\* line 77 (push) and line 88 (emplace): post, then the guard releases the mutex
Post(p) ==
    /\ ~crashed
    /\ UNCHANGED svars
    /\ ppc[p] = "post"
    /\ mMutex = Prod(p)
    /\ mQueueSemaphore' = PostOnce(mQueueSemaphore)
    /\ nPosted' = nPosted + 1
    /\ mMutex' = NoThread
    /\ ppc' = [ppc EXCEPT ![p] = "idle"]
    /\ UNCHANGED <<mQueue, ConsumerVars, log, nPushes, nPops, nClears, nPassed,
                   nTimedOut, found, afterClear, crashed>>

\* ---------------------------------------------------------------- clear
\* lines 114-118: under the mutex the deque is emptied; the semaphore is not touched
Clear(p) ==
    /\ ~crashed
    /\ UNCHANGED svars
    /\ ppc[p] = "idle"
    /\ nClears < MaxClears
    /\ mMutex = NoThread
    /\ mQueue' = ClearQueue(mQueue)
    /\ log' = Append(log, [op |-> "clear", value |-> Len(mQueue), front |-> FALSE])
    /\ nClears' = nClears + 1
    /\ mQueueSemaphore' = SemaphoreAfterClear(mQueueSemaphore)
    /\ UNCHANGED <<mMutex, ppc, ConsumerVars, nPushes, nPops, nPosted,
                   nPassed, nTimedOut, found, afterClear, crashed>>

\* ---------------------------------------------------------------- pop
\* no call is in progress on the queue
Quiet == /\ \A p \in Producers : ppc[p] = "idle"
         /\ \A c \in Consumers : cpc[c] = "idle"

\* the queue was populated by pushes alone and then cleared
PushesThenClear ==
    /\ Len(log) >= 2
    /\ \A i \in 1 .. Len(log) - 1 : log[i].op = "push"
    /\ log[Len(log)].op = "clear"

\* line 96: a consumer calls pop(t)
PopEnter(c, t) ==
    /\ ~crashed
    /\ UNCHANGED svars
    /\ cpc[c] = "idle"
    /\ timeout_ms' = [timeout_ms EXCEPT ![c] = t]
    /\ nPops' = nPops + 1
    /\ cpc' = [cpc EXCEPT ![c] = "wait"]
    /\ found' = [found EXCEPT ![c] = IF mQueue = <<>> THEN "dry" ELSE "stocked"]
    /\ afterClear' = [afterClear EXCEPT ![c] = Quiet /\ PushesThenClear]
    /\ mMutex' = MutexBeforeWait(mMutex, Cons(c))
    /\ UNCHANGED <<mQueue, mQueueSemaphore, ppc, log,
                   nPushes, nClears, nPosted, nPassed, nTimedOut, crashed>>

\* the pop calls of a run are bounded
PopCall(c, t) ==
    /\ nPops < MaxPops
    /\ PopEnter(c, t)

\* the waiting of consumer c is over: what it recorded is dropped
EndWait(c) ==
    /\ timeout_ms' = [timeout_ms EXCEPT ![c] = -1]
    /\ found' = [found EXCEPT ![c] = "stocked"]
    /\ afterClear' = [afterClear EXCEPT ![c] = FALSE]

\* line 100 (wait_for returned true) or line 103 (wait returned)
PopWait(c) ==
    /\ ~crashed
    /\ UNCHANGED svars
    /\ cpc[c] = "wait"
    /\ SemAvailable(mQueueSemaphore)
    /\ mQueueSemaphore' = SemTake(mQueueSemaphore)
    /\ nPassed' = nPassed + 1
    /\ cpc' = [cpc EXCEPT ![c] = "lock"]
    /\ EndWait(c)
    /\ UNCHANGED <<mQueue, mMutex, ppc, log,
                   nPushes, nPops, nClears, nPosted, nTimedOut, crashed>>

\* lines 100-101: wait_for returned false, the pop returns std::nullopt
PopTimeout(c) ==
    /\ ~crashed
    /\ UNCHANGED svars
    /\ cpc[c] = "wait"
    /\ PopIsTimed(timeout_ms[c])
    /\ ~SemAvailable(mQueueSemaphore)
    /\ nTimedOut' = nTimedOut + 1
    /\ cpc' = [cpc EXCEPT ![c] = "idle"]
    /\ EndWait(c)
    /\ UNCHANGED <<mQueue, mQueueSemaphore, mMutex, ppc, log,
                   nPushes, nPops, nClears, nPosted, nPassed, crashed>>

\* lines 105-109 on a non-empty deque: under the mutex the front element is
\* moved out, removed and returned
PopTake(c) ==
    /\ ~crashed
    /\ UNCHANGED svars
    /\ cpc[c] = "lock"
    /\ mMutex = NoThread
    /\ mQueue # <<>>
    /\ mQueue' = PopFront(mQueue)
    /\ log' = Append(log, [op |-> "pop", value |-> FrontOf(mQueue), front |-> FALSE])
    /\ cpc' = [cpc EXCEPT ![c] = "idle"]
    /\ UNCHANGED <<mQueueSemaphore, mMutex, ppc, timeout_ms, Counters, found, afterClear,
                   crashed>>

\* lines 105-109 on an empty deque: front() and pop_front() have undefined
\* behaviour. The call returns a value that is not in the deque, or the
\* process ends there; what the program does afterwards is not defined and
\* is followed no further.
PopTakeEmpty(c) ==
    /\ ~crashed
    /\ UNCHANGED svars
    /\ cpc[c] = "lock"
    /\ mMutex = NoThread
    /\ mQueue = <<>>
    /\ crashed' = TRUE
    /\ \/ /\ \E v \in AllItems \cup {Garbage} :
                log' = Append(log, [op |-> "pop", value |-> v, front |-> FALSE])
          /\ cpc' = [cpc EXCEPT ![c] = "idle"]
       \/ UNCHANGED <<cpc, log>>
    /\ UNCHANGED <<mQueue, mQueueSemaphore, mMutex, ppc, timeout_ms, Counters, found,
                   afterClear>>

\* ------------------------------------------- binary_semaphore_t (contract)
\* post(): the semaphore is signaled afterwards; posting a signaled semaphore changes nothing
BinPost(signaled) == TRUE
\* post() returns whether it moved the semaphore from unsignaled to signaled
BinPostResult(signaled) == ~signaled
\* wait() / wait_for() can take the signal when the semaphore is signaled
BinAvailable(signaled) == signaled
\* a successful wait leaves the semaphore unsignaled
BinTake(signaled) == FALSE

\* ------------------------------------------------------- BlockingSlot code
\* set, line 138: the value overwrites what the slot held
StoreValue(slot, value) == value

\* a variant that reports success whatever post() returned
SetResultAlways(posted) == TRUE

\* set, line 139: set returns what post() returned
SetResult(posted) == posted

GetPassesOnValue(signaled, slot) == BinAvailable(signaled) \/ slot # NoValue

\* get, lines 149-155: the call goes on only through the semaphore (wait or a
\* successful wait_for); whether the slot holds a value is not looked at
GetPasses(signaled, slot) == BinAvailable(signaled)

ExpiredGetReadsSlot(slot) == slot

\* get, line 154: after an expired wait the call returns std::nullopt, the slot is not read
ExpiredGet(slot) == NoValue

\* get, line 149: the wait is unbounded only for a negative timeout
GetIsUntimed(t) == t < 0

\* get, line 157: the stored optional is returned as it is
ReadSlot(slot) == slot

\* clear, line 165
ClearSlot(slot) == NoValue

SlotInit ==
    /\ mSlot = NoValue
    /\ mSemaphore = FALSE
    /\ mSlotMutex = NoThread
    /\ spc = [p \in Setters |-> "idle"]
    /\ gpc = [g \in Getters |-> "idle"]
    /\ get_timeout = [g \in Getters |-> -1]
    /\ wasEmpty = [p \in Setters |-> FALSE]
    /\ slotLog = <<>>
    /\ nSets = 0
    /\ nGets = 0
    /\ nSlotClears = 0

Init == QueueInit /\ SlotInit

Setter(p) == <<"setter", p>>

Getter(g) == <<"getter", g>>

\* lines 135-138: set(value) takes the mutex and stores the value
Set(p, value) ==
    /\ UNCHANGED qvars
    /\ spc[p] = "idle"
    /\ nSets < MaxSets
    /\ mSlotMutex = NoThread
    /\ mSlotMutex' = Setter(p)
    /\ wasEmpty' = [wasEmpty EXCEPT ![p] = (mSlot = NoValue)]
    /\ mSlot' = StoreValue(mSlot, value)
    /\ nSets' = nSets + 1
    /\ spc' = [spc EXCEPT ![p] = "post"]
    /\ UNCHANGED <<mSemaphore, gpc, get_timeout, slotLog, nGets, nSlotClears>>

\* line 139: post, return its result; the guard releases the mutex
SetPost(p) ==
    /\ UNCHANGED qvars
    /\ spc[p] = "post"
    /\ mSlotMutex = Setter(p)
    /\ mSemaphore' = BinPost(mSemaphore)
    /\ slotLog' = Append(slotLog, [op |-> "set", value |-> mSlot,
                                   ret |-> SetResult(BinPostResult(mSemaphore)),
                                   signaled |-> mSemaphore, empty |-> wasEmpty[p]])
    /\ wasEmpty' = [wasEmpty EXCEPT ![p] = FALSE]
    /\ mSlotMutex' = NoThread
    /\ spc' = [spc EXCEPT ![p] = "idle"]
    /\ UNCHANGED <<mSlot, gpc, get_timeout, nSets, nGets, nSlotClears>>

\* line 147: a getter calls get(t)
GetCall(g, t) ==
    /\ UNCHANGED qvars
    /\ gpc[g] = "idle"
    /\ nGets < MaxGets
    /\ get_timeout' = [get_timeout EXCEPT ![g] = t]
    /\ nGets' = nGets + 1
    /\ gpc' = [gpc EXCEPT ![g] = "wait"]
    /\ mSlotMutex' = MutexBeforeWait(mSlotMutex, Getter(g))
    /\ UNCHANGED <<mSlot, mSemaphore, spc, wasEmpty, slotLog, nSets, nSlotClears>>

\* line 151 (wait returned) or line 153 (wait_for returned true)
GetWait(g) ==
    /\ UNCHANGED qvars
    /\ gpc[g] = "wait"
    /\ GetPasses(mSemaphore, mSlot)
    /\ mSemaphore' = BinTake(mSemaphore)
    /\ slotLog' = Append(slotLog, [op |-> "take", value |-> NoValue, ret |-> TRUE,
                                   signaled |-> mSemaphore, empty |-> (mSlot = NoValue)])
    /\ get_timeout' = [get_timeout EXCEPT ![g] = -1]
    /\ gpc' = [gpc EXCEPT ![g] = "lock"]
    /\ UNCHANGED <<mSlot, mSlotMutex, spc, wasEmpty, nSets, nGets, nSlotClears>>

\* lines 153-154: wait_for returned false, the get returns std::nullopt
GetTimeout(g) ==
    /\ UNCHANGED qvars
    /\ gpc[g] = "wait"
    /\ ~GetIsUntimed(get_timeout[g])
    /\ ~BinAvailable(mSemaphore)
    /\ slotLog' = Append(slotLog, [op |-> "timeout", value |-> ExpiredGet(mSlot), ret |-> FALSE,
                                   signaled |-> mSemaphore, empty |-> (mSlot = NoValue)])
    /\ get_timeout' = [get_timeout EXCEPT ![g] = -1]
    /\ gpc' = [gpc EXCEPT ![g] = "idle"]
    /\ UNCHANGED <<mSlot, mSemaphore, mSlotMutex, spc, wasEmpty, nSets, nGets, nSlotClears>>

\* lines 156-157: under the mutex the stored optional is returned
GetRead(g) ==
    /\ UNCHANGED qvars
    /\ gpc[g] = "lock"
    /\ mSlotMutex = NoThread
    /\ slotLog' = Append(slotLog, [op |-> "get", value |-> ReadSlot(mSlot), ret |-> TRUE,
                                   signaled |-> mSemaphore, empty |-> (mSlot = NoValue)])
    /\ gpc' = [gpc EXCEPT ![g] = "idle"]
    /\ UNCHANGED <<mSlot, mSemaphore, mSlotMutex, spc, get_timeout, wasEmpty,
                   nSets, nGets, nSlotClears>>

\* lines 162-166: under the mutex the slot is emptied; the semaphore is not touched
SlotClear(p) ==
    /\ UNCHANGED qvars
    /\ spc[p] = "idle"
    /\ nSlotClears < MaxSlotClears
    /\ mSlotMutex = NoThread
    /\ mSlot' = ClearSlot(mSlot)
    /\ slotLog' = Append(slotLog, [op |-> "clear", value |-> NoValue, ret |-> FALSE,
                                   signaled |-> mSemaphore, empty |-> (mSlot = NoValue)])
    /\ nSlotClears' = nSlotClears + 1
    /\ UNCHANGED <<mSemaphore, mSlotMutex, spc, gpc, get_timeout, wasEmpty, nSets, nGets>>

\* ---------------------------------------------------------------- specifications
\* push and pop only
NextNoClear ==
    \/ \E p \in Producers : \E front \in BOOLEAN : Push(p, front)
    \/ \E p \in Producers : Post(p)
    \/ \E c \in Consumers : \E t \in Timeouts : PopCall(c, t)
    \/ \E c \in Consumers : PopWait(c)
    \/ \E c \in Consumers : PopTimeout(c)
    \/ \E c \in Consumers : PopTake(c)

\* push, pop and clear: the operations of BlockingQueue that a program can
\* call for every element type (emplace is in EmplaceNext)
Next ==
    \/ NextNoClear
    \/ \E p \in Producers : Clear(p)
    \/ \E c \in Consumers : PopTakeEmpty(c)

Spec == Init /\ [][Next]_vars

SpecNoClear == Init /\ [][NextNoClear]_vars

\* push and pop, and emplace for an element type that mQueue.emplace(element) accepts
EmplaceNext ==
    \/ NextNoClear
    \/ \E p \in Producers : Emplace(p)

EmplaceSpec == Init /\ [][EmplaceNext]_vars

\* ------------------------------------------------ the example of the header
\* lines 12-36: the main thread is producer 1, the thread th is consumer 1.
\* is_running (line 14) is true until the main thread has executed line 34
is_running == ppc[1] \notin {"join", "done"}

\* lines 17-19: the loop condition holds and th calls pop() with the default timeout
LoopPop ==
    /\ is_running
    /\ PopEnter(1, -1)

\* line 17: the loop condition fails and the thread function returns
LoopExit ==
    /\ ~crashed
    /\ UNCHANGED svars
    /\ cpc[1] = "idle"
    /\ ~is_running
    /\ cpc' = [cpc EXCEPT ![1] = "exited"]
    /\ UNCHANGED <<mQueue, mQueueSemaphore, mMutex, ppc, timeout_ms, log, Counters,
                   found, afterClear, crashed>>

\* lines 24-34: number_of_data is drawn at random; after that many pushes (at
\* least one) the loop of the main thread ends and is_running is cleared
StoreNotRunning ==
    /\ ~crashed
    /\ UNCHANGED svars
    /\ ppc[1] = "idle"
    /\ nPushes >= 1
    /\ ppc' = [ppc EXCEPT ![1] = "join"]
    /\ UNCHANGED <<mQueue, mQueueSemaphore, mMutex, cpc, timeout_ms, log, Counters,
                   found, afterClear, crashed>>

\* lines 35-36: th.join() returns once the thread function has returned
Join ==
    /\ ~crashed
    /\ UNCHANGED svars
    /\ ppc[1] = "join"
    /\ cpc[1] = "exited"
    /\ ppc' = [ppc EXCEPT ![1] = "done"]
    /\ UNCHANGED <<mQueue, mQueueSemaphore, mMutex, cpc, timeout_ms, log, Counters,
                   found, afterClear, crashed>>

ExampleNext ==
    \/ Push(1, FALSE)
    \/ Post(1)
    \/ StoreNotRunning
    \/ Join
    \/ LoopPop
    \/ PopWait(1)
    \/ PopTake(1)
    \/ LoopExit

ExampleSpec == Init /\ [][ExampleNext]_vars

\* weak fairness of the steps inside a call: a thread that has entered push,
\* emplace or pop keeps running, a waiter is woken while the semaphore is
\* available, and a bounded wait ends. Whether a call is issued is up to the caller.
Fairness ==
    /\ \A p \in Producers : WF_vars(Post(p))
    /\ \A c \in Consumers : WF_vars(PopWait(c))
    /\ \A c \in Consumers : WF_vars(PopTimeout(c))
    /\ \A c \in Consumers : WF_vars(PopTake(c))

FairSpecNoClear == SpecNoClear /\ Fairness

\* every operation of BlockingSlot
SlotNext ==
    \/ \E p \in Setters : \E value \in SlotValues : Set(p, value)
    \/ \E p \in Setters : SetPost(p)
    \/ \E p \in Setters : SlotClear(p)
    \/ \E g \in Getters : \E t \in Timeouts : GetCall(g, t)
    \/ \E g \in Getters : GetWait(g)
    \/ \E g \in Getters : GetTimeout(g)
    \/ \E g \in Getters : GetRead(g)

SlotSpec == Init /\ [][SlotNext]_vars

\* a BlockingQueue and a BlockingSlot are separate objects with their own mutex
\* and semaphore; a run exercises one of the two
QueueFresh == nPushes = 0 /\ nPops = 0 /\ nClears = 0

SlotFresh == nSets = 0 /\ nGets = 0 /\ nSlotClears = 0

ObjectNext ==
    \/ SlotFresh /\ Next
    \/ QueueFresh /\ SlotNext

ObjectSpec == Init /\ [][ObjectNext]_vars

\* ---------------------------------------------------------------- properties
IsInsert(e) == e.op = "push"
IsPop(e) == e.op = "pop"
\* the values inserted and the values returned by pop, in the order of the log
Inserted == SelectSeq(log, IsInsert)
Popped == SelectSeq(log, IsPop)
\* only push(value, front = false) and pop were used
OnlyBackPushes == \A i \in DOMAIN log : log[i].op \in {"push", "pop"} /\ ~log[i].front

\* C1: without clear(), each pushed item is returned by at most one pop, every
\* value a pop returned was pushed before, and once as many pops have returned
\* as items were pushed, the popped values are exactly the pushed items.
C1_NoItemLostOrDuplicated ==
    /\ \A i, j \in DOMAIN Popped : i # j => Popped[i].value # Popped[j].value
    /\ \A j \in DOMAIN log : IsPop(log[j]) =>
          \E i \in 1 .. j - 1 : IsInsert(log[i]) /\ log[i].value = log[j].value
    /\ Len(Popped) = MaxPushes => { Popped[i].value : i \in DOMAIN Popped } = AllItems

\* all items were pushed, to the back and to the front, and all were popped,
\* the second item before the first
C1_Witness ==
    /\ Len(Popped) = MaxPushes
    /\ \E i \in DOMAIN log : IsInsert(log[i]) /\ log[i].front
    /\ \E i \in DOMAIN log : IsInsert(log[i]) /\ ~log[i].front
    /\ \E i, j \in DOMAIN Popped : i < j /\ Popped[i].value = 2 /\ Popped[j].value = 1

FrontPushed ==
    /\ Len(log') = Len(log) + 1
    /\ log'[Len(log')].op = "push"
    /\ log'[Len(log')].front

\* the scenario push(1), push(2), push(3, front = true), pop, pop, pop
Scenario312 ==
    /\ Len(log) = 6
    /\ log[1] = [op |-> "push", value |-> 1, front |-> FALSE]
    /\ log[2] = [op |-> "push", value |-> 2, front |-> FALSE]
    /\ log[3] = [op |-> "push", value |-> 3, front |-> TRUE]
    /\ \A i \in 4 .. 6 : IsPop(log[i])

C4_PopNeverReadsEmpty ==
    /\ ~crashed
    /\ \A c \in Consumers : (cpc[c] = "lock" /\ mMutex = NoThread) => mQueue # <<>>

\* a pop that waits can get past its wait, and then returns a value
CanPassWait(c) == cpc[c] = "wait" /\ SemAvailable(mQueueSemaphore)

\* C5: a pop with a positive timeout, called on an empty queue into which
\* nothing is inserted while it waits, cannot get past its wait: it returns
\* std::nullopt and no value.
C5_TimedPopOnEmptyQueue ==
    \A c \in Consumers :
        (cpc[c] = "wait" /\ PopIsTimed(timeout_ms[c]) /\ found[c] = "dry")
            => ~CanPassWait(c)

\* C6: after pushes and a clear(), with no call in progress, a pop with a
\* positive timeout and no push after the clear cannot get past its wait:
\* it returns std::nullopt.
C6_TimedPopAfterClear ==
    \A c \in Consumers :
        (cpc[c] = "wait" /\ PopIsTimed(timeout_ms[c]) /\ afterClear[c])
            => ~CanPassWait(c)

\* C7: without clear(), under fair scheduling: whenever a pop is waiting and
\* the completed pushes and emplaces number at least the pops issued, that pop
\* gets past its wait, unless more pops are issued than pushes complete; and a
\* pop that got past its wait returns (with the element it removes).
C7_NoMissedWakeup ==
    \A c \in Consumers :
        /\ [](cpc[c] = "wait" /\ nPosted >= nPops
                => <>(cpc[c] = "lock" \/ nPops > nPosted))
        /\ [](cpc[c] = "lock" => <>(cpc[c] = "idle"))

\* a pop without timeout blocked on the empty queue, and a later push has
\* posted the signal that releases it
C7_Witness ==
    \E c \in Consumers :
        /\ CanPassWait(c)
        /\ found[c] = "fed"
        /\ timeout_ms[c] <= 0
        /\ nPosted >= nPops

\* C8: the pops that passed their wait never outnumber the pushes and
\* emplaces that posted; every posted signal is either still pending or was
\* taken by exactly one pop; no pop returns before some push or emplace posted.
C8_SignalAccounting ==
    /\ nPassed <= nPosted
    /\ mQueueSemaphore + nPassed = nPosted
    /\ Popped # <<>> => nPosted >= 1

\* two pushes released two poppers, and a third popper stays blocked
C8_Witness ==
    /\ nPosted = 2
    /\ nPassed = 2
    /\ \E c \in Consumers : cpc[c] = "wait"

IsSet(e) == e.op = "set"

C10_SetReportsEmptySlot ==
    \A i \in DOMAIN slotLog : IsSet(slotLog[i]) => (slotLog[i].ret <=> slotLog[i].empty)

LastSetBefore(i) ==
    CHOOSE k \in 0 .. (i - 1) :
        /\ (k > 0 => IsSet(slotLog[k]))
        /\ \A m \in (k + 1) .. (i - 1) : ~IsSet(slotLog[m])

\* C11: a get returns only after some set has completed, and the value it
\* returns is the value of the latest set completed before it read the slot
\* (last write wins).
C11_LastWriteWins ==
    /\ \A i \in DOMAIN slotLog :
          slotLog[i].op \in {"take", "get"} => LastSetBefore(i) > 0
    /\ \A i \in DOMAIN slotLog :
          slotLog[i].op = "get" => slotLog[i].value = slotLog[LastSetBefore(i)].value

\* C12: a get whose semaphore wait succeeded returns a present value, in
\* every interleaving of set, get and clear.
C12_GetReturnsValue ==
    \A i \in DOMAIN slotLog : slotLog[i].op = "get" => slotLog[i].value # NoValue

\* C13: a pop called with timeout_ms <= 0 (0 and the default -1 included)
\* never returns "no value": while it waits it either stays blocked or passes
\* its wait by taking a signal that a push had posted.
C13_UntimedPopWaits ==
    [][\A c \in Consumers :
          (cpc[c] = "wait" /\ timeout_ms[c] <= 0)
              => \/ cpc'[c] = "wait"
                 \/ /\ cpc'[c] = "lock"
                    /\ mQueueSemaphore > 0
                    /\ mQueueSemaphore' = mQueueSemaphore - 1
                    /\ nTimedOut' = nTimedOut]_vars

\* a pop(0) is still blocked on the empty queue after a bounded pop has
\* expired next to it
C13_Witness ==
    \E c \in Consumers :
        /\ cpc[c] = "wait"
        /\ timeout_ms[c] = 0
        /\ mQueueSemaphore = 0
        /\ nTimedOut >= 1

\* C14: a pop or get whose bounded wait expires has no side effect: it
\* returns no value, takes no signal and leaves the stored sequence or slot
\* (and the mutex) as they were.
C14_TimeoutHasNoEffect ==
    [][/\ nTimedOut' # nTimedOut
            => UNCHANGED <<mQueue, mQueueSemaphore, mMutex, log>>
       /\ (Len(slotLog') > Len(slotLog) /\ slotLog'[Len(slotLog')].op = "timeout")
            => /\ UNCHANGED <<mSlot, mSemaphore, mSlotMutex>>
               /\ slotLog'[Len(slotLog')].value = NoValue]_vars

\* get(t) expired on the empty slot, then set(10) was received by the next get
C14_Witness ==
    /\ Len(slotLog) = 4
    /\ slotLog[1].op = "timeout"
    /\ IsSet(slotLog[2]) /\ slotLog[2].value = 10 /\ slotLog[2].ret
    /\ slotLog[3].op = "take"
    /\ slotLog[4].op = "get" /\ slotLog[4].value = 10

\* C15: no thread holds the mutex of an object while it is blocked on the
\* semaphore of that object: a waiting pop or get does not own the mutex, and
\* whoever owns it is inside push, emplace or set on its way to the post,
\* which it can always execute, however many poppers or getters are blocked.
C15_NoLockHeldWhileWaiting ==
    /\ \A c \in Consumers : cpc[c] = "wait" => mMutex # Cons(c)
    /\ \A g \in Getters : gpc[g] = "wait" => mSlotMutex # Getter(g)
    /\ mMutex # NoThread
          => \E p \in Producers : mMutex = Prod(p) /\ ppc[p] = "post" /\ ENABLED Post(p)
    /\ mSlotMutex # NoThread
          => \E p \in Setters : mSlotMutex = Setter(p) /\ spc[p] = "post" /\ ENABLED SetPost(p)

\* both consumers are blocked on the empty queue while a producer is inside
\* the critical section of push
C15_Witness ==
    /\ \A c \in Consumers : cpc[c] = "wait" /\ timeout_ms[c] <= 0
    /\ mQueueSemaphore = 0
    /\ \E p \in Producers : mMutex = Prod(p)

\* C16: emplace(value) has the effect of push(value, front = false): when
\* the call has inserted, the element at the back of the sequence is value.
C16_EmplaceAppends ==
    (log # <<>> /\ log[Len(log)].op = "emplace")
        => (mQueue # <<>> /\ mQueue[Len(mQueue)] = log[Len(log)].value)

PopsInFlight == Cardinality({c \in Consumers : cpc[c] = "lock"})

PushesInside == Cardinality({p \in Producers : ppc[p] = "post"})

\* C17 as stated: without clear, in every reachable state the semaphore count
\* plus the pops that passed their wait and have not yet removed their element
\* equals the number of stored elements.
C17_CountPlusInFlight ==
    mQueueSemaphore + PopsInFlight = Len(mQueue)

\* C17: without clear, in every reachable state the semaphore count plus the
\* pops that passed their wait and have not yet removed their element plus
\* the pushes that have inserted and not yet posted equals the number of
\* stored elements; so the count never exceeds the length, and equals it when
\* no pop is in flight and no push is inside its critical section.
C17_CountPlusInFlightPlusInside ==
    /\ mQueueSemaphore + PopsInFlight + PushesInside = Len(mQueue)
    /\ mQueueSemaphore <= Len(mQueue)
    /\ (PopsInFlight = 0 /\ PushesInside = 0) => mQueueSemaphore = Len(mQueue)

\* one signal pending, one pop past its wait, one push between insert and post
C17_Witness ==
    /\ mQueueSemaphore = 1
    /\ PopsInFlight = 1
    /\ PushesInside = 1
    /\ Len(mQueue) = 3

IsTake(e) == e.op = "take"

\* C18: the signal of the slot saturates: however many sets complete, only
\* one get passes its wait until a further set completes (between two gets
\* that passed there is a set), and once a get has taken the signal the
\* semaphore stays unsignaled, so that the next get blocks or times out,
\* until another set posts.
C18_SignalSaturates ==
    /\ \A i, j \in DOMAIN slotLog :
          (i < j /\ IsTake(slotLog[i]) /\ IsTake(slotLog[j]))
              => \E k \in (i + 1) .. (j - 1) : IsSet(slotLog[k])
    /\ \A i \in DOMAIN slotLog :
          (IsTake(slotLog[i]) /\ \A k \in (i + 1) .. Len(slotLog) : ~IsSet(slotLog[k]))
              => ~mSemaphore
    /\ \A i \in DOMAIN slotLog : slotLog[i].op = "timeout" => ~slotLog[i].signaled

\* two sets completed, one get received the value, the next get timed out
C18_Witness ==
    /\ Len(slotLog) = 5
    /\ IsSet(slotLog[1])
    /\ IsSet(slotLog[2])
    /\ IsTake(slotLog[3])
    /\ slotLog[4].op = "get"
    /\ slotLog[5].op = "timeout"

\* C19: clear() changes only the stored data: the clear of the queue empties
\* the sequence and leaves the semaphore count as it was, the clear of the slot
\* empties the value and leaves the signaled state as it was; neither touches
\* the calls in progress.
C19_ClearChangesOnlyData ==
    [][/\ nClears' # nClears
            => /\ mQueue' = <<>>
               /\ UNCHANGED <<mQueueSemaphore, mMutex, ppc, cpc, timeout_ms>>
       /\ nSlotClears' # nSlotClears
            => /\ mSlot' = NoValue
               /\ UNCHANGED <<mSemaphore, mSlotMutex, spc, gpc, get_timeout>>]_vars

\* two elements were pushed and cleared: the sequence is empty and the count is still 2
C19_Witness ==
    /\ log # <<>>
    /\ log[Len(log)].op = "clear"
    /\ log[Len(log)].value = 2
    /\ mQueue = <<>>
    /\ mQueueSemaphore = 2

\* C20: the example of the header terminates: in every interleaving the
\* consumer thread leaves its loop and join() returns, that is, as long as the
\* main thread has not come back from join() some thread can take a step.
C20_ExampleTerminates ==
    ppc[1] = "done" \/ ENABLED ExampleNext

====
